---- MODULE Spec2Model ----
(***************************************************************************)
(* Model of the 75-day habit tracker: the domain model (Task, Attempt,     *)
(* Day), the per-field update handlers of the useDay hook, the application *)
(* context (in-memory days and the persisted challenge), day navigation    *)
(* and the bulk task revision of the main screen.                          *)
(*                                                                         *)
(* Optional fields (mood, weight, photoUri, timestamp) are sequences of    *)
(* length 0 (undefined / null) or 1 (the value).  Weights are integers in  *)
(* hundredths of a kilogram, so that the decimal-place rule of             *)
(* validateWeight is computed.  Timestamps are readings of the clock now.  *)
(***************************************************************************)
EXTENDS Integers, Sequences, FiniteSets, TLC

\* ---------------------------------------------------------------- bounds
NumDays == 2
NumDefaultTasks == 1
MaxAttempts == 2
MaxTime == 2
MaxSteps == 4
MaxUpdates == 2
MaxRtTasks == 2
MaxHours == 60
MaxCalls == 2

\* ---------------------------------------------------------------- inputs
\* what the user enters in the application's specification
AppMoods == {"happy"}
AppWeightInputs == {7000, 7005}
AppPhotoInputs == {"file://p1.jpg"}
\* what the attempt-level runs feed to the per-field updates
Moods == {"happy", "sad"}
WeightInputs == {0, 7000, 7005}
PhotoInputs == {"", "file://p1.jpg"}

None == <<>>
Some(x) == <<x>>

VARIABLES
  days,             \* AppState.days: the in-memory days
  currentDayIndex,  \* AppState.currentDayIndex (0-based)
  stored,           \* the persisted ChallengeData, None when no record exists
  now,              \* the wall clock read by new Date()
  today,            \* whole days elapsed between the start date and today
  startDate,        \* AppState.startDate: the calendar day the challenge in memory started
  exported,         \* the backup file written last, None before the first export
  template,         \* the task template last applied by a bulk task revision
  steps,            \* number of events so far: handlers run, clock ticks, midnights
  revised,          \* TRUE exactly when the last event is a run of saveTasks
  importResult,     \* what the last event returned if it is an import, "none" otherwise
  rtAttempt,        \* attempt-level runs: the attempt the updates are applied to
  rtHist,           \* attempt-level runs: the attempt before each update applied so far
  rtOps,            \* attempt-level runs: the updates applied so far
  dtStart,          \* date-level runs: the instant the challenge started, in hours
  dtNow,            \* date-level runs: the present instant, in hours
  dtZone,           \* date-level runs: the device's time zone rule
  calls,            \* asynchronous runs: the calls begun so far, each with its position
  error             \* asynchronous runs: AppState.error, None when null

appVars == <<days, currentDayIndex, stored, now, today, startDate, exported,
             template, steps, revised, importResult>>
rtVars == <<rtAttempt, rtHist, rtOps>>
dtVars == <<dtStart, dtNow, dtZone>>
ioVars == <<calls, error>>
idleVars == <<rtVars, dtVars, ioVars>>
vars == <<days, currentDayIndex, stored, now, today, startDate, exported,
          template, steps, revised, importResult,
          rtAttempt, rtHist, rtOps, dtStart, dtNow, dtZone, calls, error>>

\* ------------------------------------------------------------ Task.ts
createTask(id, title, completed) ==
  [id |-> id, title |-> title, completed |-> completed]

AllDefaultTasks ==
  << [id |-> "workout", title |-> "45 min workout"],
     [id |-> "rawdogging", title |-> "10 min rawdogging"],
     [id |-> "reading", title |-> "Read 10 pages"],
     [id |-> "water", title |-> "Drink 2L water"] >>

DEFAULT_TASKS == SubSeq(AllDefaultTasks, 1, NumDefaultTasks)

createDefaultTasks ==
  [i \in 1..Len(DEFAULT_TASKS) |->
     createTask(DEFAULT_TASKS[i].id, DEFAULT_TASKS[i].title, FALSE)]

\* --------------------------------------------------------- Attempt.ts
createAttempt(number, tasks) ==
  [number |-> number,
   timestamp |-> None,
   photoUri |-> None,
   mood |-> None,
   weight |-> None,
   tasks |-> [i \in 1..Len(tasks) |-> [tasks[i] EXCEPT !.completed = FALSE]],
   completed |-> FALSE]

\* variant: any recorded weight counts, the "> 0" test is dropped
isAttemptComplete_anyWeight(attempt) ==
  LET allTasksCompleted == \A i \in 1..Len(attempt.tasks) : attempt.tasks[i].completed
      hasMood == attempt.mood # None
      hasPhoto == attempt.photoUri # None /\ attempt.photoUri # Some("")
      hasWeight == attempt.weight # None
  IN allTasksCompleted /\ hasMood /\ hasPhoto /\ hasWeight

isAttemptComplete(attempt) ==
  LET allTasksCompleted == \A i \in 1..Len(attempt.tasks) : attempt.tasks[i].completed
      hasMood == attempt.mood # None
      hasPhoto == attempt.photoUri # None /\ attempt.photoUri # Some("")
      hasWeight == attempt.weight # None /\ attempt.weight[1] > 0
  IN allTasksCompleted /\ hasMood /\ hasPhoto /\ hasWeight

completeAttempt(attempt, t) ==
  [attempt EXCEPT !.completed = TRUE, !.timestamp = Some(t)]

\* ------------------------------------------------------------- Day.ts
createDay(index) ==
  [index |-> index, attempts |-> << createAttempt(1, createDefaultTasks) >>]

getCurrentAttempt(day) == day.attempts[Len(day.attempts)]

isDayCompleted(day) == \E k \in 1..Len(day.attempts) : day.attempts[k].completed

\* variant: the new attempt replaces the earlier ones
addNewAttempt_dropsEarlier(day) ==
  [day EXCEPT !.attempts = << createAttempt(Len(day.attempts) + 1, createDefaultTasks) >>]

addNewAttempt(day) ==
  LET defaultTasks == createDefaultTasks
      newAttemptNumber == Len(day.attempts) + 1
      newAttempt == createAttempt(newAttemptNumber, defaultTasks)
  IN [day EXCEPT !.attempts = Append(day.attempts, newAttempt)]

\* variant: the first attempt is replaced, not the last
updateCurrentAttempt_first(day, updatedAttempt) ==
  [day EXCEPT !.attempts = [day.attempts EXCEPT ![1] = updatedAttempt]]

updateCurrentAttempt(day, updatedAttempt) ==
  [day EXCEPT !.attempts = [day.attempts EXCEPT ![Len(day.attempts)] = updatedAttempt]]

createInitialDays == [i \in 1..NumDays |-> createDay(i)]

\* -------------------------------------------------- ValidationService
decimalPlaces(weight) ==
  IF weight % 100 = 0 THEN 0 ELSE IF weight % 10 = 0 THEN 1 ELSE 2

validateWeight(weight) == decimalPlaces(weight) <= 1

\* --------------------------------------------------------- DateService
\* Instants are whole hours of UTC.  A time zone rule moves the local clock by
\* zone.by hours from the instant zone.at on (by = 0: no daylight-saving
\* change); before zone.at the local clock shows UTC.
HoursPerDay == 24

wallClock(instant, zone) ==
  instant + (IF zone.by # 0 /\ instant >= zone.at THEN zone.by ELSE 0)

\* d.setHours(0, 0, 0, 0): the instant of the local midnight of d's local day
setHoursMidnight(instant, zone) ==
  CHOOSE m \in (instant - HoursPerDay - 1)..instant :
    wallClock(m, zone) = HoursPerDay * (wallClock(instant, zone) \div HoursPerDay)

\* Math.floor(timeDifference / (1000 * 60 * 60 * 24))
daysDifferenceAt(start, present, zone) ==
  (setHoursMidnight(present, zone) - setHoursMidnight(start, zone)) \div HoursPerDay

\* Math.min(75, Math.max(1, daysDifference + 1)), the challenge having NumDays days
maxUnlockedDayFor(daysDifference) ==
  LET maxUnlockedDay == IF daysDifference + 1 > 1 THEN daysDifference + 1 ELSE 1
  IN IF maxUnlockedDay < NumDays THEN maxUnlockedDay ELSE NumDays

getMaxUnlockedDayAt(start, present, zone) ==
  maxUnlockedDayFor(daysDifferenceAt(start, present, zone))

\* in the application the device's zone has no change: today whole days elapsed
getMaxUnlockedDay == maxUnlockedDayFor(today)

isDayUnlockedByTime(dayIndex) == dayIndex <= getMaxUnlockedDay

\* dayDate.setDate(startDate.getDate() + n): the instant n local calendar days
\* later at the same local time of day; a local time skipped by a clock change
\* is taken as the first one after the gap
setDate(instant, zone, n) ==
  LET target == wallClock(instant, zone) + HoursPerDay * n
      later == (instant + HoursPerDay * n - 1)..(instant + HoursPerDay * n + 1)
  IN CHOOSE m \in later :
       /\ wallClock(m, zone) >= target
       /\ \A m2 \in later : wallClock(m2, zone) >= target => m <= m2

\* dayDate.toISOString().split('T')[0]: the calendar day in UTC
toISODate(instant) == instant \div HoursPerDay

\* the date createInitialDays gives day i of a challenge started at start
dayDateAt(start, i, zone) == toISODate(setDate(start, zone, i - 1))

\* ---------------------------------------------------- StorageService
CURRENT_VERSION == 1

\* startDate: the calendar day of the start instant
initializeChallenge(start) ==
  [version |-> CURRENT_VERSION, startDate |-> start,
   days |-> createInitialDays, currentDayIndex |-> 1]

\* variant: the day after the updated one is replaced
StorageService_updateDay_nextDay(challengeData, updatedDay) ==
  [challengeData EXCEPT !.days =
     [i \in 1..Len(challengeData.days) |->
        IF challengeData.days[i].index = updatedDay.index + 1
        THEN updatedDay ELSE challengeData.days[i]]]

StorageService_updateDay(challengeData, updatedDay) ==
  [challengeData EXCEPT !.days =
     [i \in 1..Len(challengeData.days) |->
        IF challengeData.days[i].index = updatedDay.index
        THEN updatedDay ELSE challengeData.days[i]]]

StorageService_updateDays(challengeData, updatedDays) ==
  [challengeData EXCEPT !.days = updatedDays]

\* --------------------------------------------------------- AppContext
\* appReducer, case UPDATE_DAY (dayIndex is 0-based)
UPDATE_DAY(stateDays, dayIndex, day) == [stateDays EXCEPT ![dayIndex + 1] = day]

\* actions.updateDay: dispatch, then load the stored challenge and write it back
updateDay(dayIndex, day) ==
  /\ days' = UPDATE_DAY(days, dayIndex, day)
  /\ stored' = IF stored = None THEN stored
               ELSE Some(StorageService_updateDay(stored[1], day))

\* actions.updateDays: one dispatch per day, then one wholesale write
updateDays(newDays) ==
  /\ days' = [i \in 1..Len(days) |-> IF i <= Len(newDays) THEN newDays[i] ELSE days[i]]
  /\ stored' = IF stored = None THEN stored
               ELSE Some(StorageService_updateDays(stored[1], newDays))

getCompletedDaysCount == Cardinality({i \in 1..Len(days) : isDayCompleted(days[i])})

\* the loop of getStreakCount: count until the first day that is not completed
RECURSIVE streakLoop(_)
streakLoop(ds) ==
  IF ds = <<>> THEN 0
  ELSE IF isDayCompleted(Head(ds)) THEN 1 + streakLoop(Tail(ds)) ELSE 0

\* variant: every completed day counts
getStreakCount_countsAll == getCompletedDaysCount

getStreakCount == streakLoop(days)

\* one more event, within the explored budget
issued(op) ==
  /\ steps < MaxSteps
  /\ steps' = steps + 1
  /\ revised' = (op = "saveTasks")
  /\ importResult' = CASE op = "import succeeded" -> "success"
                      [] op = "import failed" -> "failure"
                      [] op = "import cancelled" -> "cancelled"
                      [] OTHER -> "none"

\* ------------------------------------------------------------ useDay
\* useDay(state.currentDayIndex): the day the hook works on
hookDayExists == currentDayIndex + 1 \in 1..Len(days)
hookDay == days[currentDayIndex + 1]

toggleTask_updatedAttempt(currentAttempt, taskId) ==
  LET updatedTasks == [i \in 1..Len(currentAttempt.tasks) |->
        IF currentAttempt.tasks[i].id = taskId
        THEN [currentAttempt.tasks[i] EXCEPT !.completed = ~currentAttempt.tasks[i].completed]
        ELSE currentAttempt.tasks[i]]
      updatedAttempt == [currentAttempt EXCEPT !.tasks = updatedTasks]
      shouldBeCompleted == isAttemptComplete(updatedAttempt)
  IN [updatedAttempt EXCEPT
        !.completed = shouldBeCompleted,
        !.timestamp = IF shouldBeCompleted THEN updatedAttempt.timestamp ELSE None]

\* the shape shared by setMood, setWeight, clearMood, clearWeight, clearPhoto:
\* keep completed and timestamp only while the candidate is still complete
keepCompletion(currentAttempt, candidate) ==
  LET keep == currentAttempt.completed /\ isAttemptComplete(candidate)
  IN [candidate EXCEPT
        !.completed = IF keep THEN currentAttempt.completed ELSE FALSE,
        !.timestamp = IF keep THEN currentAttempt.timestamp ELSE None]

\* "Check if this update completes the attempt"
promoteIfComplete(updatedAttempt, t) ==
  IF isAttemptComplete(updatedAttempt) /\ ~updatedAttempt.completed
  THEN [updatedAttempt EXCEPT !.completed = TRUE, !.timestamp = Some(t)]
  ELSE updatedAttempt

\* variant: an attempt that is complete with the new mood is stamped anew
setMood_restamps(currentAttempt, mood, t) ==
  LET candidate == [currentAttempt EXCEPT !.mood = Some(mood)]
  IN IF isAttemptComplete(candidate)
     THEN [candidate EXCEPT !.completed = TRUE, !.timestamp = Some(t)]
     ELSE [candidate EXCEPT !.completed = FALSE, !.timestamp = None]

setMood_updatedAttempt(currentAttempt, mood, t) ==
  promoteIfComplete(
    keepCompletion(currentAttempt, [currentAttempt EXCEPT !.mood = Some(mood)]), t)

setWeight_updatedAttempt(currentAttempt, weight, t) ==
  promoteIfComplete(
    keepCompletion(currentAttempt, [currentAttempt EXCEPT !.weight = Some(weight)]), t)

setPhoto_updatedAttempt(currentAttempt, photoUri, t) ==
  promoteIfComplete([currentAttempt EXCEPT !.photoUri = Some(photoUri)], t)

\* variant: the mood is cleared without re-deriving completed and timestamp
clearMood_keepsCompletion(currentAttempt) ==
  [currentAttempt EXCEPT !.mood = None]

clearMood_updatedAttempt(currentAttempt) ==
  keepCompletion(currentAttempt, [currentAttempt EXCEPT !.mood = None])

clearWeight_updatedAttempt(currentAttempt) ==
  keepCompletion(currentAttempt, [currentAttempt EXCEPT !.weight = None])

clearPhoto_updatedAttempt(currentAttempt) ==
  keepCompletion(currentAttempt, [currentAttempt EXCEPT !.photoUri = None])

TaskIdsOf(attempt) == {attempt.tasks[i].id : i \in 1..Len(attempt.tasks)}

toggleTask(taskId) ==
  /\ hookDayExists
  /\ updateDay(currentDayIndex,
       updateCurrentAttempt(hookDay,
         toggleTask_updatedAttempt(getCurrentAttempt(hookDay), taskId)))
  /\ issued("toggleTask")
  /\ UNCHANGED <<currentDayIndex, now, today, template, startDate, exported>>

setMood(mood) ==
  /\ hookDayExists
  /\ updateDay(currentDayIndex,
       updateCurrentAttempt(hookDay,
         setMood_updatedAttempt(getCurrentAttempt(hookDay), mood, now)))
  /\ issued("setMood")
  /\ UNCHANGED <<currentDayIndex, now, today, template, startDate, exported>>

setWeight(weight) ==
  /\ hookDayExists
  /\ validateWeight(weight)
  /\ updateDay(currentDayIndex,
       updateCurrentAttempt(hookDay,
         setWeight_updatedAttempt(getCurrentAttempt(hookDay), weight, now)))
  /\ issued("setWeight")
  /\ UNCHANGED <<currentDayIndex, now, today, template, startDate, exported>>

setPhoto(photoUri) ==
  /\ hookDayExists
  /\ updateDay(currentDayIndex,
       updateCurrentAttempt(hookDay,
         setPhoto_updatedAttempt(getCurrentAttempt(hookDay), photoUri, now)))
  /\ issued("setPhoto")
  /\ UNCHANGED <<currentDayIndex, now, today, template, startDate, exported>>

clearMood ==
  /\ hookDayExists
  /\ updateDay(currentDayIndex,
       updateCurrentAttempt(hookDay, clearMood_updatedAttempt(getCurrentAttempt(hookDay))))
  /\ issued("clearMood")
  /\ UNCHANGED <<currentDayIndex, now, today, template, startDate, exported>>

clearWeight ==
  /\ hookDayExists
  /\ updateDay(currentDayIndex,
       updateCurrentAttempt(hookDay, clearWeight_updatedAttempt(getCurrentAttempt(hookDay))))
  /\ issued("clearWeight")
  /\ UNCHANGED <<currentDayIndex, now, today, template, startDate, exported>>

clearPhoto ==
  /\ hookDayExists
  /\ updateDay(currentDayIndex,
       updateCurrentAttempt(hookDay, clearPhoto_updatedAttempt(getCurrentAttempt(hookDay))))
  /\ issued("clearPhoto")
  /\ UNCHANGED <<currentDayIndex, now, today, template, startDate, exported>>

\* explicit completion: fails with no state change when a requirement is unmet
completeCurrentAttempt ==
  /\ hookDayExists
  /\ isAttemptComplete(getCurrentAttempt(hookDay))
  /\ updateDay(currentDayIndex,
       updateCurrentAttempt(hookDay, completeAttempt(getCurrentAttempt(hookDay), now)))
  /\ issued("completeCurrentAttempt")
  /\ UNCHANGED <<currentDayIndex, now, today, template, startDate, exported>>

startNewAttempt ==
  /\ hookDayExists
  /\ Len(hookDay.attempts) < MaxAttempts
  /\ updateDay(currentDayIndex, addNewAttempt(hookDay))
  /\ issued("startNewAttempt")
  /\ UNCHANGED <<currentDayIndex, now, today, template, startDate, exported>>

\* -------------------------------------------------------- MainScreen
\* the task lists the "modify tasks" editor can hand to saveTasks
EditableTaskLists ==
  { << createTask("workout", "Run 5k", TRUE), createTask("task-1", "Stretch", FALSE) >>,
    << createTask("workout", "  ", FALSE), createTask("task-1", "Stretch", FALSE) >>,
    << createTask("workout", "", FALSE) >> }

\* title.trim() !== ''
isBlank(title) == title \in {"", " ", "  "}

RECURSIVE filterNonBlank(_)
filterNonBlank(tasks) ==
  IF tasks = <<>> THEN <<>>
  ELSE IF isBlank(Head(tasks).title) THEN filterNonBlank(Tail(tasks))
       ELSE <<Head(tasks)>> \o filterNonBlank(Tail(tasks))

\* currentAttempt.tasks.find(t => t.id === newTask.id): position of the first match, 0 if none
findTask(tasks, id) ==
  IF \E i \in 1..Len(tasks) : tasks[i].id = id
  THEN CHOOSE i \in 1..Len(tasks) :
         /\ tasks[i].id = id
         /\ \A j \in 1..(i - 1) : tasks[j].id # id
  ELSE 0

\* variant: the rebuilt tasks all start not completed
saveTasks_updatedTasks_fresh(validTasks, currentAttempt) ==
  [n \in 1..Len(validTasks) |-> [validTasks[n] EXCEPT !.completed = FALSE]]

saveTasks_updatedTasks(validTasks, currentAttempt) ==
  [n \in 1..Len(validTasks) |->
     LET existingTask == findTask(currentAttempt.tasks, validTasks[n].id)
     IN [validTasks[n] EXCEPT
           !.completed = IF existingTask # 0
                         THEN currentAttempt.tasks[existingTask].completed ELSE FALSE]]

\* variant: completion is read off the current attempt instead of the day
saveTasks_applies_byCurrentAttempt(day, index) ==
  LET isCompletedDay == getCurrentAttempt(day).completed
      isFutureDay == index > currentDayIndex
  IN ~isCompletedDay \/ isFutureDay

\* variant: every day is rebuilt
saveTasks_applies_everyDay(day, index) == TRUE

\* the condition under which saveTasks rebuilds the day at 0-based position index
saveTasks_applies(day, index) ==
  LET isCompletedDay == isDayCompleted(day)
      isFutureDay == index > currentDayIndex
  IN ~isCompletedDay \/ isFutureDay

\* variant: a rebuilt day gets a fresh current attempt with the new tasks
saveTasks_updatedDays_freshAttempt(validTasks) ==
  [i \in 1..Len(days) |->
     IF saveTasks_applies(days[i], i - 1)
     THEN updateCurrentAttempt(days[i],
            createAttempt(getCurrentAttempt(days[i]).number, validTasks))
     ELSE days[i]]

saveTasks_updatedDays(validTasks) ==
  [i \in 1..Len(days) |->
     IF saveTasks_applies(days[i], i - 1)
     THEN LET currentAttempt == getCurrentAttempt(days[i])
              updatedAttempt == [currentAttempt EXCEPT
                                   !.tasks = saveTasks_updatedTasks(validTasks, currentAttempt)]
          IN updateCurrentAttempt(days[i], updatedAttempt)
     ELSE days[i]]

templateOf(tasks) == [i \in 1..Len(tasks) |-> [id |-> tasks[i].id, title |-> tasks[i].title]]

saveTasks(editableTasks) ==
  LET validTasks == filterNonBlank(editableTasks)
  IN /\ Len(validTasks) # 0
     /\ updateDays(saveTasks_updatedDays(validTasks))
     /\ template' = templateOf(validTasks)
     /\ issued("saveTasks")
     /\ UNCHANGED <<currentDayIndex, now, today, startDate, exported>>

\* variant: navigation gated by completion only
handleDayPress_completionGateOnly(dayIndex) ==
  LET allPreviousDaysCompleted == \A i \in 1..dayIndex : isDayCompleted(days[i])
  IN IF allPreviousDaysCompleted
     THEN /\ currentDayIndex' = dayIndex
          /\ issued("handleDayPress")
          /\ UNCHANGED <<days, stored, now, today, template, startDate, exported>>
     ELSE UNCHANGED appVars

\* variant: navigation gated by time only
handleDayPress_timeGateOnly(dayIndex) ==
  LET isUnlockedByTime == isDayUnlockedByTime(dayIndex + 1)
  IN IF isUnlockedByTime
     THEN /\ currentDayIndex' = dayIndex
          /\ issued("handleDayPress")
          /\ UNCHANGED <<days, stored, now, today, template, startDate, exported>>
     ELSE UNCHANGED appVars

\* a blocked press returns silently: nothing changes
handleDayPress(dayIndex) ==
  LET isUnlockedByTime == isDayUnlockedByTime(dayIndex + 1)
      allPreviousDaysCompleted == \A i \in 1..dayIndex : isDayCompleted(days[i])
  IN IF isUnlockedByTime /\ allPreviousDaysCompleted
     THEN /\ currentDayIndex' = dayIndex
          /\ issued("handleDayPress")
          /\ UNCHANGED <<days, stored, now, today, template, startDate, exported>>
     ELSE UNCHANGED appVars

\* AppContext.resetChallenge, confirmed in handleResetChallenge
resetChallenge ==
  LET challengeData == initializeChallenge(startDate + today)
  IN /\ stored' = Some(challengeData)
     /\ days' = challengeData.days
     /\ currentDayIndex' = challengeData.currentDayIndex - 1
     /\ startDate' = challengeData.startDate
     /\ today' = 0
     /\ template' = templateOf(createDefaultTasks)
     /\ issued("resetChallenge")
     /\ UNCHANGED <<now, exported>>

\* calculateDayProgress: (completedSteps / totalSteps) * 100 as the fraction
\* num / den.  totalSteps is the literal 7, "4 tasks + mood + weight + photo",
\* the model having NumDefaultTasks default tasks.
totalSteps == NumDefaultTasks + 3

completedStepsOf(currentAttempt) ==
  Cardinality({i \in 1..Len(currentAttempt.tasks) : currentAttempt.tasks[i].completed})
    + (IF currentAttempt.mood # None THEN 1 ELSE 0)
    + (IF currentAttempt.weight # None /\ currentAttempt.weight[1] > 0 THEN 1 ELSE 0)
    + (IF currentAttempt.photoUri # None /\ currentAttempt.photoUri # Some("") THEN 1 ELSE 0)

calculateDayProgress(day) ==
  [num |-> completedStepsOf(getCurrentAttempt(day)) * 100, den |-> totalSteps]

\* -------------------------------------------------------- DataService
EXPORT_VERSION == 1

\* A JSON value as validateImportData sees it: <<>> when the property is
\* missing, otherwise <<type, value>>.  A string is the sequence of its parts,
\* the empty string <<>>.
missing == <<>>
jsonNumber(n) == <<"number", n>>
jsonString(parts) == <<"string", parts>>
jsonArray(elements) == <<"array", elements>>
jsonObject(properties) == <<"object", properties>>

typeOf(v) == IF Len(v) = 0 THEN "undefined" ELSE v[1]

\* !v
falsy(v) ==
  \/ Len(v) = 0
  \/ v[1] = "string" /\ Len(v[2]) = 0
  \/ v[1] = "number" /\ v[2] = 0

\* JSON.stringify leaves out the properties whose value is undefined;
\* reading a property that is not there gives undefined
OptionalFields == {"mood", "weight", "photoUri"}
AttemptFields == {"number", "tasks", "mood", "weight", "photoUri", "completed", "timestamp"}

jsonOfAttempt(attempt) ==
  [k \in {f \in DOMAIN attempt : f \in OptionalFields => attempt[f] # None} |->
     attempt[k]]

attemptOfJson(doc) ==
  [k \in AttemptFields |->
     IF k \in DOMAIN doc THEN doc[k] ELSE None]

jsonOfDays(ds) ==
  [i \in 1..Len(ds) |->
     [index |-> ds[i].index,
      attempts |-> [k \in 1..Len(ds[i].attempts) |-> jsonOfAttempt(ds[i].attempts[k])]]]

daysOfJson(docs) ==
  [i \in 1..Len(docs) |->
     [index |-> docs[i].index,
      attempts |-> [k \in 1..Len(docs[i].attempts) |-> attemptOfJson(docs[i].attempts[k])]]]

\* the ExportData of exportData / exportDataAsZip, as JSON.parse gives it back
exportDataOf(challengeData, exportDate) ==
  jsonObject([version |-> jsonNumber(EXPORT_VERSION),
              exportDate |-> jsonString(<<exportDate>>),
              challengeData |->
                jsonObject([version |-> jsonNumber(challengeData.version),
                            startDate |-> jsonString(<<challengeData.startDate>>),
                            days |-> jsonArray(jsonOfDays(challengeData.days)),
                            currentDayIndex |-> jsonNumber(challengeData.currentDayIndex)])])

\* the days whose photo exportDataAsZip puts into the archive
photosOf(challengeData) ==
  {i \in 1..Len(challengeData.days) :
     \E k \in 1..Len(challengeData.days[i].attempts) :
       LET attempt == challengeData.days[i].attempts[k]
       IN attempt.photoUri # None /\ attempt.photoUri # Some("") /\ attempt.completed}

\* A backup file: text is "json" when JSON.parse succeeds on it ("garbage"
\* otherwise, "absent" when a ZIP holds no 75-hard-backup.json), data is the
\* parsed value, photos the day numbers of the n.jpg entries of a ZIP.
backupFile(text, data, photos) == [text |-> text, data |-> data, photos |-> photos]

\* variant: the number of days is not checked
validateImportData_anyLength(data) ==
  /\ ~falsy(data)
  /\ typeOf(data[2].version) = "number"
  /\ ~falsy(data[2].exportDate) /\ typeOf(data[2].exportDate) = "string"
  /\ ~falsy(data[2].challengeData)
  /\ LET challengeData == data[2].challengeData[2]
     IN /\ typeOf(challengeData.version) = "number"
        /\ ~falsy(challengeData.startDate)
        /\ typeOf(challengeData.days) = "array"
        /\ typeOf(challengeData.currentDayIndex) = "number"

validateImportData(data) ==
  /\ ~falsy(data)
  /\ typeOf(data[2].version) = "number"
  /\ ~falsy(data[2].exportDate) /\ typeOf(data[2].exportDate) = "string"
  /\ ~falsy(data[2].challengeData)
  /\ LET challengeData == data[2].challengeData[2]
     IN /\ typeOf(challengeData.version) = "number"
        /\ ~falsy(challengeData.startDate)
        /\ typeOf(challengeData.days) = "array"
        /\ typeOf(challengeData.currentDayIndex) = "number"
        /\ Len(challengeData.days[2]) = NumDays

\* importData.challengeData as saveChallengeData stores it
challengeDataOf(data) ==
  LET challengeData == data[2].challengeData[2]
  IN [version |-> challengeData.version[2],
      startDate |-> challengeData.startDate[2][1],
      days |-> daysOfJson(challengeData.days[2]),
      currentDayIndex |-> challengeData.currentDayIndex[2]]

\* importDataFromZip: the photoUri of every attempt that has one, on the days
\* with a restored photo, points at the restored file
restoredPhotoUri == "file://cache/restored.jpg"

\* variant: every day is treated as a day with a restored photo
withRestoredPhotos_everyDay(challengeData, photos) ==
  [challengeData EXCEPT !.days =
     [i \in 1..Len(challengeData.days) |->
        [challengeData.days[i] EXCEPT !.attempts =
           [k \in 1..Len(challengeData.days[i].attempts) |->
              LET attempt == challengeData.days[i].attempts[k]
              IN IF attempt.photoUri # None /\ attempt.photoUri # Some("")
                 THEN [attempt EXCEPT !.photoUri = Some(restoredPhotoUri)]
                 ELSE attempt]]]]

withRestoredPhotos(challengeData, photos) ==
  [challengeData EXCEPT !.days =
     [i \in 1..Len(challengeData.days) |->
        IF i \in photos
        THEN [challengeData.days[i] EXCEPT !.attempts =
                [k \in 1..Len(challengeData.days[i].attempts) |->
                   LET attempt == challengeData.days[i].attempts[k]
                   IN IF attempt.photoUri # None /\ attempt.photoUri # Some("")
                      THEN [attempt EXCEPT !.photoUri = Some(restoredPhotoUri)]
                      ELSE attempt]]
        ELSE challengeData.days[i]]]

\* exportData: a JSON file, no photos
exportData ==
  /\ stored # None
  /\ exported' = Some([file |-> backupFile("json", exportDataOf(stored[1], now), {}),
                       source |-> stored[1].days])
  /\ issued("exportData")
  /\ UNCHANGED <<days, currentDayIndex, stored, now, today, startDate, template>>

\* handleExportData: exportDataAsZip
handleExportData ==
  /\ stored # None
  /\ exported' = Some([file |-> backupFile("json", exportDataOf(stored[1], now),
                                           photosOf(stored[1])),
                       source |-> stored[1].days])
  /\ issued("handleExportData")
  /\ UNCHANGED <<days, currentDayIndex, stored, now, today, startDate, template>>

\* an import that returns before it touches storage
importReturns(result) ==
  /\ issued(result)
  /\ UNCHANGED <<days, currentDayIndex, stored, now, today, startDate, exported, template>>

\* importData: parse, validate, confirm, then clear and save; storage only
importData(file, confirmed) ==
  IF file.text # "json" \/ ~validateImportData(file.data)
  THEN importReturns("import failed")
  ELSE IF ~confirmed
  THEN importReturns("import cancelled")
  ELSE /\ stored' = Some(challengeDataOf(file.data))
       /\ issued("import succeeded")
       /\ UNCHANGED <<days, currentDayIndex, now, today, startDate, exported, template>>

\* what importDataFromZip saves, None when it returns a failure or is cancelled
importDataFromZip(file, confirmed) ==
  IF file.text = "json" /\ validateImportData(file.data) /\ confirmed
  THEN Some(withRestoredPhotos(challengeDataOf(file.data), file.photos))
  ELSE None

\* handleImportData: getBackupInfoFromZip, the details dialog, importDataFromZip
\* with its own dialog and, on success, loadDays
handleImportData(file, detailsConfirmed, importConfirmed) ==
  LET saved == importDataFromZip(file, importConfirmed)
  IN IF file.text # "json" \/ ~validateImportData(file.data)
     THEN importReturns("import failed")
     ELSE IF ~detailsConfirmed \/ saved = None
     THEN importReturns("import cancelled")
     ELSE /\ stored' = saved
          /\ days' = saved[1].days
          /\ currentDayIndex' = saved[1].currentDayIndex - 1
          /\ startDate' = saved[1].startDate
          /\ today' = startDate + today - saved[1].startDate
          /\ issued("import succeeded")
          /\ UNCHANGED <<now, exported, template>>

\* ------------------------------------------------------- environment
\* the wall clock advances
Tick ==
  /\ now < MaxTime
  /\ now' = now + 1
  /\ issued("Tick")
  /\ UNCHANGED <<days, currentDayIndex, stored, today, template, startDate, exported>>

\* a local midnight passes
Midnight ==
  /\ today + 1 < NumDays
  /\ today' = today + 1
  /\ issued("Midnight")
  /\ UNCHANGED <<days, currentDayIndex, stored, now, template, startDate, exported>>

\* ------------------------------------------------- the application
\* What earlier sessions can have left in storage, built with the handlers'
\* own updates: every task of the current attempt toggled ...
RECURSIVE toggleTasks(_, _)
toggleTasks(attempt, n) ==
  IF n = 0 THEN attempt
  ELSE toggleTask_updatedAttempt(toggleTasks(attempt, n - 1), attempt.tasks[n].id)

\* ... mood, weight and photo recorded at time t, in that order ...
recordAll(attempt, t) ==
  setPhoto_updatedAttempt(
    setWeight_updatedAttempt(
      setMood_updatedAttempt(attempt, "happy", t), 7000, t), "file://p1.jpg", t)

\* ... a day with everything recorded and no task done,
pendingDay(day) ==
  updateCurrentAttempt(day, recordAll(getCurrentAttempt(day), 1))

\* a day completed by its last recording,
completedDay(day) ==
  LET currentAttempt == getCurrentAttempt(day)
  IN updateCurrentAttempt(day,
       recordAll(toggleTasks(currentAttempt, Len(currentAttempt.tasks)), 1))

\* and a completed day on which a new attempt was started.
retriedDay(day) == addNewAttempt(completedDay(day))

\* The storage record loadDays finds: none on a fresh install, or a challenge
\* whose first day is pending, completed or retried, or whose days are all
\* completed.  Storage never holds another currentDayIndex than 1.
StoredRecords ==
  {None} \cup
  { Some([initializeChallenge(0) EXCEPT !.days = d]) :
      d \in { [createInitialDays EXCEPT ![1] = pendingDay(@)],
              [createInitialDays EXCEPT ![1] = completedDay(@)],
              [createInitialDays EXCEPT ![1] = retriedDay(@)],
              [i \in 1..NumDays |-> completedDay(createDay(i))] } }

\* the last day an earlier session worked on was unlocked by time
daysElapsed(challengeData) ==
  LET touched == {i \in 1..Len(challengeData.days) :
                    challengeData.days[i] # createDay(i)}
  IN IF touched = {} THEN 0
     ELSE (CHOOSE i \in touched : \A j \in touched : j <= i) - 1

\* the state after loadDays
loadDays(record) ==
  LET challengeData == IF record = None THEN initializeChallenge(0) ELSE record[1]
  IN /\ days = challengeData.days
     /\ currentDayIndex = challengeData.currentDayIndex - 1
     /\ startDate = challengeData.startDate
     /\ stored = Some(challengeData)
     /\ exported = None
     /\ now = 1
     /\ today = daysElapsed(challengeData)
     /\ template = templateOf(createDefaultTasks)
     /\ steps = 0
     /\ revised = FALSE
     /\ importResult = "none"

AppInit == \E record \in StoredRecords : loadDays(record)

\* no attempt-level run in the application's specification
RtIdle ==
  /\ rtAttempt = createAttempt(1, createDefaultTasks)
  /\ rtHist = <<>>
  /\ rtOps = <<>>

\* no date-level run either
NoShift == [at |-> 0, by |-> 0]

DtIdle ==
  /\ dtStart = 0
  /\ dtNow = 0
  /\ dtZone = NoShift

\* and no call in flight
IoIdle ==
  /\ calls = <<>>
  /\ error = None

Init == AppInit /\ RtIdle /\ DtIdle /\ IoIdle

Next ==
  \/ (\E taskId \in TaskIdsOf(getCurrentAttempt(hookDay)) : toggleTask(taskId)) /\ UNCHANGED idleVars
  \/ (\E mood \in AppMoods : setMood(mood)) /\ UNCHANGED idleVars
  \/ (\E weight \in AppWeightInputs : setWeight(weight)) /\ UNCHANGED idleVars
  \/ (\E photoUri \in AppPhotoInputs : setPhoto(photoUri)) /\ UNCHANGED idleVars
  \/ clearMood /\ UNCHANGED idleVars
  \/ clearWeight /\ UNCHANGED idleVars
  \/ clearPhoto /\ UNCHANGED idleVars
  \/ completeCurrentAttempt /\ UNCHANGED idleVars
  \/ startNewAttempt /\ UNCHANGED idleVars
  \/ (\E editableTasks \in EditableTaskLists : saveTasks(editableTasks)) /\ UNCHANGED idleVars
  \/ (\E dayIndex \in 0..(NumDays - 1) : handleDayPress(dayIndex)) /\ UNCHANGED idleVars
  \/ resetChallenge /\ UNCHANGED idleVars
  \/ Tick /\ UNCHANGED idleVars
  \/ Midnight /\ UNCHANGED idleVars

Spec == Init /\ [][Next]_vars

\* ------------------------------------------------- backup runs
\* DataService next to the writers of storage: updateDay (through toggleTask
\* and setPhoto), updateDays (through saveTasks) and resetChallenge.  The
\* backup files a user can pick are the one exported last and files written
\* elsewhere.
wellFormed == exportDataOf(initializeChallenge(0), 1)

\* the properties of the ExportData and of its challengeData replaced
withProperty(data, name, value) ==
  jsonObject([data[2] EXCEPT ![name] = value])

withChallengeProperty(data, name, value) ==
  withProperty(data, "challengeData",
               jsonObject([data[2].challengeData[2] EXCEPT ![name] = value]))

\* the days of a challenge in reverse order
reversedDays == [i \in 1..NumDays |-> createDay(NumDays + 1 - i)]

ForeignData ==
  { missing,
    withProperty(wellFormed, "version", missing),
    withProperty(wellFormed, "exportDate", missing),
    withProperty(wellFormed, "challengeData", missing),
    withChallengeProperty(wellFormed, "version", jsonString(<<"1">>)),
    withChallengeProperty(wellFormed, "startDate", missing),
    withChallengeProperty(wellFormed, "days", jsonObject(<<>>)),
    withChallengeProperty(wellFormed, "days",
                          jsonArray(jsonOfDays(SubSeq(createInitialDays, 1, NumDays - 1)))),
    withChallengeProperty(wellFormed, "currentDayIndex", jsonString(<<"1">>)),
    withChallengeProperty(wellFormed, "days", jsonArray(jsonOfDays(reversedDays))) }

ForeignFiles ==
  {backupFile("garbage", missing, {}), backupFile("absent", missing, {})}
    \cup {backupFile("json", data, {}) : data \in ForeignData}

PickedFiles == ForeignFiles \cup (IF exported = None THEN {} ELSE {exported[1].file})

NextBackup ==
  \/ (\E taskId \in TaskIdsOf(getCurrentAttempt(hookDay)) : toggleTask(taskId)) /\ UNCHANGED idleVars
  \/ (\E photoUri \in AppPhotoInputs : setPhoto(photoUri)) /\ UNCHANGED idleVars
  \/ (\E editableTasks \in EditableTaskLists : saveTasks(editableTasks)) /\ UNCHANGED idleVars
  \/ resetChallenge /\ UNCHANGED idleVars
  \/ exportData /\ UNCHANGED idleVars
  \/ handleExportData /\ UNCHANGED idleVars
  \/ (\E file \in PickedFiles, confirmed \in BOOLEAN :
        importData(file, confirmed)) /\ UNCHANGED idleVars
  \/ (\E file \in PickedFiles, detailsConfirmed \in BOOLEAN, importConfirmed \in BOOLEAN :
        handleImportData(file, detailsConfirmed, importConfirmed)) /\ UNCHANGED idleVars

SpecBackup == Init /\ [][NextBackup]_vars

\* ------------------------------------------------- asynchronous runs
\* AppContext and DataService with their awaits: a call runs from one await
\* to the next in one step, calls in flight interleave, and every storage
\* operation can fail.  At most MaxCalls calls are begun, at most two of them
\* in flight together.  A call keeps its position (pc), what it was given
\* (payload) and what it read (read).
call(op, pc, payload) == [op |-> op, pc |-> pc, payload |-> payload, read |-> None]

settled(c) == c.pc \in {"done", "skipped", "failed"}

\* a call begins while at most one other call is in flight
begin(c) ==
  /\ Len(calls) < MaxCalls
  /\ \A j, k \in 1..Len(calls) : j = k \/ settled(calls[j]) \/ settled(calls[k])
  /\ calls' = Append(calls, c)

at(k, op, pc) == k \in 1..Len(calls) /\ calls[k].op \in op /\ calls[k].pc = pc

goto(k, pc) == calls' = [calls EXCEPT ![k].pc = pc]

uiVars == <<now, exported, template, steps, revised, importResult>>

\* loadChallengeData: the stored challenge, null when nothing is stored and
\* when getItem or JSON.parse throws
loadChallengeData(ok) == IF ok THEN stored ELSE None

\* the days the per-field handlers hand to actions.updateDay
HookUpdates ==
  LET currentAttempt == getCurrentAttempt(hookDay)
  IN {updateCurrentAttempt(hookDay, toggleTask_updatedAttempt(currentAttempt, taskId)) :
        taskId \in TaskIdsOf(currentAttempt)}
     \cup {updateCurrentAttempt(hookDay, setMood_updatedAttempt(currentAttempt, mood, now)) :
             mood \in AppMoods}

\* actions.updateDay up to its first await: the dispatch
updateDay_dispatch(dayIndex, day) ==
  /\ begin(call("updateDay", "load", day))
  /\ days' = UPDATE_DAY(days, dayIndex, day)
  /\ UNCHANGED <<currentDayIndex, stored, startDate, today, uiVars, error>>

\* actions.updateDays up to its first await: one dispatch per day
updateDays_dispatch(newDays) ==
  /\ begin(call("updateDays", "load", newDays))
  /\ days' = newDays
  /\ UNCHANGED <<currentDayIndex, stored, startDate, today, uiVars, error>>

\* await StorageService.loadChallengeData(): on null nothing more happens
update_load(k, ok) ==
  /\ at(k, {"updateDay", "updateDays"}, "load")
  /\ LET challengeData == loadChallengeData(ok)
     IN calls' = [calls EXCEPT ![k].read = challengeData,
                               ![k].pc = IF challengeData = None THEN "skipped" ELSE "save"]
  /\ UNCHANGED <<appVars, error>>

\* variant: the write starts from what storage holds at the time of the
\* write, when it holds a challenge
update_written_fromStore(c) ==
  LET current == IF stored = None THEN c.read[1] ELSE stored[1]
  IN IF c.op = "updateDay"
     THEN StorageService_updateDay(current, c.payload)
     ELSE StorageService_updateDays(current, c.payload)

\* what StorageService.updateDay / updateDays hand to saveChallengeData: the
\* challenge the call read, with the call's day or days put in
update_written(c) ==
  IF c.op = "updateDay"
  THEN StorageService_updateDay(c.read[1], c.payload)
  ELSE StorageService_updateDays(c.read[1], c.payload)

\* await StorageService.updateDay / updateDays: saveChallengeData throws on a
\* failed write and the catch dispatches SET_ERROR
update_save(k, ok) ==
  /\ at(k, {"updateDay", "updateDays"}, "save")
  /\ IF ok
     THEN /\ stored' = Some(update_written(calls[k]))
          /\ goto(k, "done")
          /\ UNCHANGED error
     ELSE /\ goto(k, "failed")
          /\ error' = Some("Failed to update")
          /\ UNCHANGED stored
  /\ UNCHANGED <<days, currentDayIndex, startDate, today, uiVars>>

\* actions.resetChallenge up to its first await
resetChallenge_begins ==
  /\ begin(call("resetChallenge", "clear", None))
  /\ UNCHANGED <<appVars, error>>

\* await StorageService.clearChallengeData()
resetChallenge_clear(k, ok) ==
  /\ at(k, {"resetChallenge"}, "clear")
  /\ IF ok
     THEN /\ stored' = None
          /\ goto(k, "initialize")
          /\ UNCHANGED error
     ELSE /\ goto(k, "failed")
          /\ error' = Some("Failed to reset challenge")
          /\ UNCHANGED stored
  /\ UNCHANGED <<days, currentDayIndex, startDate, today, uiVars>>

\* await StorageService.initializeChallenge(new Date()), then the dispatches
resetChallenge_initialize(k, ok) ==
  /\ at(k, {"resetChallenge"}, "initialize")
  /\ IF ok
     THEN LET challengeData == initializeChallenge(startDate + today)
          IN /\ stored' = Some(challengeData)
             /\ days' = challengeData.days
             /\ currentDayIndex' = challengeData.currentDayIndex - 1
             /\ startDate' = challengeData.startDate
             /\ today' = 0
             /\ goto(k, "done")
             /\ error' = None
     ELSE /\ goto(k, "failed")
          /\ error' = Some("Failed to reset challenge")
          /\ UNCHANGED <<stored, days, currentDayIndex, startDate, today>>
  /\ UNCHANGED uiVars

\* importData, the user having confirmed the import of a valid file
importData_confirmed(file) ==
  /\ file.text = "json" /\ validateImportData(file.data)
  /\ begin(call("importData", "clear", challengeDataOf(file.data)))
  /\ UNCHANGED <<appVars, error>>

\* importDataFromZip, the user having confirmed the import of a valid archive
importDataFromZip_confirmed(file) ==
  /\ file.text = "json" /\ validateImportData(file.data)
  /\ begin(call("importDataFromZip", "clear",
                withRestoredPhotos(challengeDataOf(file.data), file.photos)))
  /\ UNCHANGED <<appVars, error>>

\* await StorageService.clearChallengeData(): a throw ends the import with a
\* failure result
import_clear(k, ok) ==
  /\ at(k, {"importData", "importDataFromZip"}, "clear")
  /\ IF ok
     THEN stored' = None /\ goto(k, "save")
     ELSE goto(k, "failed") /\ UNCHANGED stored
  /\ UNCHANGED <<days, currentDayIndex, startDate, today, uiVars, error>>

\* await StorageService.saveChallengeData(...): the same on a throw
import_save(k, ok) ==
  /\ at(k, {"importData", "importDataFromZip"}, "save")
  /\ IF ok
     THEN stored' = Some(calls[k].payload) /\ goto(k, "done")
     ELSE goto(k, "failed") /\ UNCHANGED stored
  /\ UNCHANGED <<days, currentDayIndex, startDate, today, uiVars, error>>

\* actions.loadDays up to its first await (on mount, and after an import)
loadDays_begins ==
  /\ begin(call("loadDays", "isInitialized", None))
  /\ UNCHANGED <<appVars, error>>

\* await StorageService.isChallengeInitialized(): loadChallengeData() !== null
loadDays_isInitialized(k, ok) ==
  /\ at(k, {"loadDays"}, "isInitialized")
  /\ goto(k, IF loadChallengeData(ok) # None THEN "load" ELSE "initialize")
  /\ UNCHANGED <<appVars, error>>

\* await StorageService.loadChallengeData(), then the dispatches unless null
loadDays_load(k, ok) ==
  /\ at(k, {"loadDays"}, "load")
  /\ LET challengeData == loadChallengeData(ok)
     IN IF challengeData # None
        THEN /\ days' = challengeData[1].days
             /\ currentDayIndex' = challengeData[1].currentDayIndex - 1
             /\ startDate' = challengeData[1].startDate
             /\ today' = startDate + today - challengeData[1].startDate
             /\ calls' = [calls EXCEPT ![k].read = challengeData, ![k].pc = "done"]
             /\ error' = None
        ELSE /\ goto(k, "skipped")
             /\ UNCHANGED <<days, currentDayIndex, startDate, today, error>>
  /\ UNCHANGED <<stored, uiVars>>

\* await StorageService.initializeChallenge(new Date()), then the dispatches
loadDays_initialize(k, ok) ==
  /\ at(k, {"loadDays"}, "initialize")
  /\ IF ok
     THEN LET challengeData == initializeChallenge(startDate + today)
          IN /\ stored' = Some(challengeData)
             /\ days' = challengeData.days
             /\ currentDayIndex' = challengeData.currentDayIndex - 1
             /\ startDate' = challengeData.startDate
             /\ today' = 0
             /\ goto(k, "done")
             /\ error' = None
     ELSE /\ goto(k, "failed")
          /\ error' = Some("Failed to load days")
          /\ UNCHANGED <<stored, days, currentDayIndex, startDate, today>>
  /\ UNCHANGED uiVars

\* the bulk revision the asynchronous runs issue
RevisedTasks == << createTask("workout", "Run 5k", TRUE), createTask("task-1", "Stretch", FALSE) >>

\* the backup the asynchronous runs import
ImportedFile == backupFile("json", wellFormed, {})

\* what storage holds when an asynchronous run starts: a challenge with a
\* pending first day, or one whose days are all completed
AsyncRecords ==
  { Some([initializeChallenge(0) EXCEPT !.days = d]) :
      d \in { [createInitialDays EXCEPT ![1] = pendingDay(@)],
              [i \in 1..NumDays |-> completedDay(createDay(i))] } }

InitAsync ==
  /\ \E record \in AsyncRecords : loadDays(record)
  /\ RtIdle
  /\ DtIdle
  /\ IoIdle

NextAsync ==
  \/ (\E day \in HookUpdates : updateDay_dispatch(currentDayIndex, day)) /\ UNCHANGED <<rtVars, dtVars>>
  \/ updateDays_dispatch(saveTasks_updatedDays(RevisedTasks)) /\ UNCHANGED <<rtVars, dtVars>>
  \/ (\E k \in 1..Len(calls), ok \in BOOLEAN : update_load(k, ok)) /\ UNCHANGED <<rtVars, dtVars>>
  \/ (\E k \in 1..Len(calls), ok \in BOOLEAN : update_save(k, ok)) /\ UNCHANGED <<rtVars, dtVars>>
  \/ resetChallenge_begins /\ UNCHANGED <<rtVars, dtVars>>
  \/ (\E k \in 1..Len(calls), ok \in BOOLEAN : resetChallenge_clear(k, ok)) /\ UNCHANGED <<rtVars, dtVars>>
  \/ (\E k \in 1..Len(calls), ok \in BOOLEAN : resetChallenge_initialize(k, ok)) /\ UNCHANGED <<rtVars, dtVars>>
  \/ importData_confirmed(ImportedFile) /\ UNCHANGED <<rtVars, dtVars>>
  \/ importDataFromZip_confirmed(ImportedFile) /\ UNCHANGED <<rtVars, dtVars>>
  \/ (\E k \in 1..Len(calls), ok \in BOOLEAN : import_clear(k, ok)) /\ UNCHANGED <<rtVars, dtVars>>
  \/ (\E k \in 1..Len(calls), ok \in BOOLEAN : import_save(k, ok)) /\ UNCHANGED <<rtVars, dtVars>>
  \/ loadDays_begins /\ UNCHANGED <<rtVars, dtVars>>
  \/ (\E k \in 1..Len(calls), ok \in BOOLEAN : loadDays_isInitialized(k, ok)) /\ UNCHANGED <<rtVars, dtVars>>
  \/ (\E k \in 1..Len(calls), ok \in BOOLEAN : loadDays_load(k, ok)) /\ UNCHANGED <<rtVars, dtVars>>
  \/ (\E k \in 1..Len(calls), ok \in BOOLEAN : loadDays_initialize(k, ok)) /\ UNCHANGED <<rtVars, dtVars>>

SpecAsync == InitAsync /\ [][NextAsync]_vars

\* ------------------------------------------- attempt-level runs
\* The per-field updates of useDay applied to one attempt, outside the
\* application: the attempt is drawn from AttemptInputs and at most
\* MaxUpdates updates are applied to it; rtHist keeps the attempt before each.
RtTaskLists ==
  UNION { { [i \in 1..n |->
               createTask(AllDefaultTasks[i].id, AllDefaultTasks[i].title, f[i])] :
              f \in [1..n -> BOOLEAN] } : n \in 0..MaxRtTasks }

OptionOf(S) == {None} \cup {Some(x) : x \in S}

\* the data model's shape of an attempt: no timestamp unless completed, and
\* completed only with a mood, a positive weight and a photoUri recorded
AttemptShape(a) ==
  /\ ~a.completed => a.timestamp = None
  /\ a.completed => a.mood # None /\ a.photoUri # None
                    /\ a.weight # None /\ a.weight[1] > 0

AttemptInputs ==
  { a \in [number : {1},
           timestamp : OptionOf({1}),
           photoUri : OptionOf(PhotoInputs),
           mood : OptionOf({"happy"}),
           weight : OptionOf({0, 7000}),
           tasks : RtTaskLists,
           completed : BOOLEAN] : AttemptShape(a) }

rtApply(op, req, updatedAttempt) ==
  /\ Len(rtOps) < MaxUpdates
  /\ rtAttempt' = updatedAttempt
  /\ rtHist' = Append(rtHist, rtAttempt)
  /\ rtOps' = Append(rtOps, [op |-> op, req |-> req])
  /\ UNCHANGED <<appVars, dtVars, ioVars>>

RtToggleTask(taskId) ==
  rtApply("toggleTask", taskId, toggleTask_updatedAttempt(rtAttempt, taskId))

RtSetMood(mood) ==
  rtApply("setMood", "mood", setMood_updatedAttempt(rtAttempt, mood, now))

RtSetWeight(weight) ==
  /\ validateWeight(weight)
  /\ rtApply("setWeight", "weight", setWeight_updatedAttempt(rtAttempt, weight, now))

RtSetPhoto(photoUri) ==
  rtApply("setPhoto", "photo", setPhoto_updatedAttempt(rtAttempt, photoUri, now))

RtClearMood == rtApply("clearMood", "mood", clearMood_updatedAttempt(rtAttempt))

RtClearWeight == rtApply("clearWeight", "weight", clearWeight_updatedAttempt(rtAttempt))

RtClearPhoto == rtApply("clearPhoto", "photo", clearPhoto_updatedAttempt(rtAttempt))

InitAttempt ==
  /\ loadDays(None)
  /\ DtIdle
  /\ IoIdle
  /\ rtAttempt \in AttemptInputs
  /\ rtHist = <<>>
  /\ rtOps = <<>>

NextAttempt ==
  \/ \E taskId \in TaskIdsOf(rtAttempt) : RtToggleTask(taskId)
  \/ \E mood \in Moods : RtSetMood(mood)
  \/ \E weight \in WeightInputs : RtSetWeight(weight)
  \/ \E photoUri \in PhotoInputs : RtSetPhoto(photoUri)
  \/ RtClearMood
  \/ RtClearWeight
  \/ RtClearPhoto
  \/ Tick /\ UNCHANGED idleVars

SpecAttempt == InitAttempt /\ [][NextAttempt]_vars

\* ------------------------------------------------- date-level runs
\* DateService applied to a start instant on the first day, in a zone without
\* a change or with one change at 02:00 of some day (one hour forward or back),
\* while the hours pass.
Zones ==
  {NoShift} \cup
  { [at |-> HoursPerDay * k + 2, by |-> b] :
      k \in 0..(MaxHours \div HoursPerDay), b \in {-1, 1} }

HourPasses ==
  /\ dtNow < MaxHours
  /\ dtNow' = dtNow + 1
  /\ UNCHANGED <<appVars, rtVars, ioVars, dtStart, dtZone>>

InitDate ==
  /\ loadDays(None)
  /\ RtIdle
  /\ IoIdle
  /\ dtStart \in 0..(HoursPerDay - 1)
  /\ dtZone \in Zones
  /\ dtNow = dtStart

NextDate == HourPasses

SpecDate == InitDate /\ [][NextDate]_vars

\* ===================================================== properties
\* the four requirement categories, stated on the fields of an attempt
AllTasksDone(a) == {i \in 1..Len(a.tasks) : ~a.tasks[i].completed} = {}
MoodSet(a) == Len(a.mood) = 1
PhotoSet(a) == Len(a.photoUri) = 1 /\ a.photoUri[1] # ""
WeightPositive(a) == Len(a.weight) = 1 /\ a.weight[1] >= 1
SatisfiesAllFour(a) == AllTasksDone(a) /\ MoodSet(a) /\ PhotoSet(a) /\ WeightPositive(a)

AttemptsOf(ds) == UNION {{ds[i].attempts[k] : k \in 1..Len(ds[i].attempts)} : i \in 1..Len(ds)}

\* the current attempt of the hook's day before and after a step
curAttempt == getCurrentAttempt(hookDay)
curAttemptAfter == getCurrentAttempt(days'[currentDayIndex + 1])

\* the candidate attempts: the current attempt with the new field value
withTaskToggled(a, taskId) ==
  [a EXCEPT !.tasks = [i \in 1..Len(a.tasks) |->
     IF a.tasks[i].id = taskId
     THEN [a.tasks[i] EXCEPT !.completed = ~a.tasks[i].completed] ELSE a.tasks[i]]]
withMood(a, m) == [a EXCEPT !.mood = m]
withWeight(a, w) == [a EXCEPT !.weight = w]
withPhoto(a, p) == [a EXCEPT !.photoUri = p]

\* C1: in every reachable state, every attempt with completed = TRUE has all
\* of its tasks completed, a mood, a non-empty photoUri and a weight > 0.
C1_CompletedSatisfiesAllFour ==
  \A a \in AttemptsOf(days) : a.completed => SatisfiesAllFour(a)

\* C2: in every reachable state and for every attempt of every day, the
\* timestamp is non-null if and only if completed is TRUE.
C2_TimestampIffCompleted ==
  \A a \in AttemptsOf(days) : (a.timestamp # None) <=> a.completed

Promoted(a, t) == a.completed /\ a.timestamp = Some(t)

\* C4: for each of toggleTask, setMood, setWeight and setPhoto, when the
\* current attempt is not completed and the attempt with the new field value
\* satisfies isAttemptComplete, the stored attempt has completed = TRUE and
\* timestamp = the time of the update.
C4_PromotionUniform ==
  [][ /\ \A taskId \in TaskIdsOf(curAttempt) :
           (toggleTask(taskId) /\ ~curAttempt.completed
              /\ isAttemptComplete(withTaskToggled(curAttempt, taskId)))
           => Promoted(curAttemptAfter, now)
      /\ \A mood \in AppMoods :
           (setMood(mood) /\ ~curAttempt.completed
              /\ isAttemptComplete(withMood(curAttempt, Some(mood))))
           => Promoted(curAttemptAfter, now)
      /\ \A weight \in AppWeightInputs :
           (setWeight(weight) /\ ~curAttempt.completed
              /\ isAttemptComplete(withWeight(curAttempt, Some(weight))))
           => Promoted(curAttemptAfter, now)
      /\ \A photoUri \in AppPhotoInputs :
           (setPhoto(photoUri) /\ ~curAttempt.completed
              /\ isAttemptComplete(withPhoto(curAttempt, Some(photoUri))))
           => Promoted(curAttemptAfter, now)
    ]_vars

\* ------------------------------------------------ bulk task revision
\* the valid (non-blank) tasks of an edited list, stated by positions
ValidPositions(editableTasks) ==
  {n \in 1..Len(editableTasks) : editableTasks[n].title \notin {"", " ", "  "}}

\* tasks carries exactly the ids and titles of the non-blank tasks, in order
HasTemplateOf(tasks, editableTasks) ==
  /\ Len(tasks) = Cardinality(ValidPositions(editableTasks))
  /\ \A n \in ValidPositions(editableTasks) :
       LET pos == Cardinality({m \in ValidPositions(editableTasks) : m <= n})
       IN tasks[pos].id = editableTasks[n].id /\ tasks[pos].title = editableTasks[n].title

\* the day is rebuilt: only the task list of its current attempt is replaced
RebuiltFrom(before, after, editableTasks) ==
  /\ Len(after.attempts) = Len(before.attempts)
  /\ HasTemplateOf(getCurrentAttempt(after).tasks, editableTasks)

HasCompletedAttempt(day) == {k \in 1..Len(day.attempts) : day.attempts[k].completed} # {}
IsAfterCurrentDay(i) == i > currentDayIndex + 1

\* C7 as claimed: a bulk task revision rebuilds the current attempt's task list
\* for exactly (a) the days whose current (last) attempt is not completed and
\* (b) the days strictly after the current day; every other day is unchanged.
C7_RebuildsByCurrentAttempt ==
  [][ \A editableTasks \in EditableTaskLists :
        saveTasks(editableTasks) =>
          \A i \in 1..Len(days) :
            IF ~getCurrentAttempt(days[i]).completed \/ IsAfterCurrentDay(i)
            THEN RebuiltFrom(days[i], days'[i], editableTasks)
            ELSE days'[i] = days[i]
    ]_vars

\* C7 amended: a bulk task revision rebuilds the current attempt's task list
\* for exactly (a) the days with no completed attempt and (b) the days strictly
\* after the current day; a day at or before the current day with an earlier
\* completed attempt and a newer, not completed current attempt is unchanged.
C7_RebuildsByDayCompletion ==
  [][ \A editableTasks \in EditableTaskLists :
        saveTasks(editableTasks) =>
          \A i \in 1..Len(days) :
            IF ~HasCompletedAttempt(days[i]) \/ IsAfterCurrentDay(i)
            THEN RebuiltFrom(days[i], days'[i], editableTasks)
            ELSE days'[i] = days[i]
    ]_vars

\* a revision has just run; it skipped a day at or before the current day whose
\* earlier attempt is completed and whose current attempt is not, and it
\* rebuilt a completed day after the current day
C7_Witness ==
  /\ revised
  /\ \E i \in 1..Len(days) :
       /\ ~IsAfterCurrentDay(i)
       /\ Len(days[i].attempts) = 2
       /\ days[i].attempts[1].completed
       /\ ~days[i].attempts[2].completed
       /\ templateOf(days[i].attempts[2].tasks) # template
  /\ \E j \in 1..Len(days) :
       /\ IsAfterCurrentDay(j)
       /\ getCurrentAttempt(days[j]).completed
       /\ templateOf(getCurrentAttempt(days[j]).tasks) = template

\* C8: for every day a bulk task revision rebuilds, the new current-attempt
\* task list has the ids and titles of the new template in template order, and
\* each task's completed flag is that of the old task with the same id if there
\* was one, and FALSE otherwise.
C8_CarriesCompletedById ==
  [][ \A editableTasks \in EditableTaskLists :
        saveTasks(editableTasks) =>
          \A i \in 1..Len(days) :
            (~HasCompletedAttempt(days[i]) \/ IsAfterCurrentDay(i)) =>
              LET old == getCurrentAttempt(days[i]).tasks
                  new == getCurrentAttempt(days'[i]).tasks
              IN /\ HasTemplateOf(new, editableTasks)
                 /\ \A n \in 1..Len(new) :
                      new[n].completed =
                        (\E m \in 1..Len(old) : old[m].id = new[n].id /\ old[m].completed)
    ]_vars

\* a revision has just run and left a day with a carried-over completed task
\* next to a task that is new and not completed
C8_Witness ==
  /\ revised
  /\ \E i \in 1..Len(days) :
       LET tasks == getCurrentAttempt(days[i]).tasks
       IN /\ templateOf(tasks) = template
          /\ ~getCurrentAttempt(days[i]).completed
          /\ Len(tasks) = 2
          /\ tasks[1].id = "workout" /\ tasks[1].title = "Run 5k" /\ tasks[1].completed
          /\ tasks[2].id = "task-1" /\ ~tasks[2].completed

\* C9: a bulk task revision leaves every day that is completed and at or
\* before the current day unchanged, in memory and in the persisted snapshot.
C9_CompletedPastDaysUntouched ==
  [][ \A editableTasks \in EditableTaskLists :
        saveTasks(editableTasks) =>
          \A i \in 1..Len(days) :
            (HasCompletedAttempt(days[i]) /\ ~IsAfterCurrentDay(i)) =>
              /\ days'[i] = days[i]
              /\ stored # None /\ stored' # None
              /\ stored'[1].days[i] = stored[1].days[i]
              /\ stored'[1].days[i] = days[i]
    ]_vars

\* a revision has just run while a completed day at or before the current day
\* kept a task list that differs from the new template
C9_Witness ==
  /\ revised
  /\ \E i \in 1..Len(days) :
       /\ ~IsAfterCurrentDay(i)
       /\ getCurrentAttempt(days[i]).completed
       /\ templateOf(getCurrentAttempt(days[i]).tasks) # template
       /\ stored[1].days[i] = days[i]

\* C10: startNewAttempt appends an attempt whose number is attempts.length + 1
\* and whose tasks are not completed copies of the current task template, the
\* one a prior bulk task revision has put in place.
C10_NewAttemptFromCurrentTemplate ==
  [][ startNewAttempt =>
        LET before == hookDay
            after == days'[currentDayIndex + 1]
            newAttempt == after.attempts[Len(after.attempts)]
        IN /\ Len(after.attempts) = Len(before.attempts) + 1
           /\ newAttempt.number = Len(before.attempts) + 1
           /\ \A n \in 1..Len(newAttempt.tasks) : ~newAttempt.tasks[n].completed
           /\ templateOf(newAttempt.tasks) = template
    ]_vars

\* ------------------------------------------- attempt-level properties
\* every attempt an attempt-level run has met: the ones before each update
\* and the present one
RtAttemptsMet == {rtHist[k] : k \in 1..Len(rtHist)} \cup {rtAttempt}

\* C3: isAttemptComplete is TRUE if and only if every task is completed
\* (vacuously for an empty task list), mood is set, photoUri is set and
\* non-empty, and weight is set and strictly greater than 0.
C3_IsAttemptCompleteIffAllFour ==
  \A a \in RtAttemptsMet : isAttemptComplete(a) <=> SatisfiesAllFour(a)

\* the vacuous case: an update has completed an attempt that has no task
C3_Witness ==
  /\ Len(rtOps) = 1
  /\ rtAttempt.tasks = <<>>
  /\ isAttemptComplete(rtAttempt)
  /\ ~isAttemptComplete(rtHist[1])

Demoted(a) == ~a.completed /\ a.timestamp = None

\* C5: for every per-field update (toggleTask, setMood, clearMood, setWeight,
\* clearWeight, setPhoto, clearPhoto), when the current attempt is completed
\* and the attempt with the new field value no longer satisfies
\* isAttemptComplete, the stored attempt has completed = FALSE and
\* timestamp = null.
C5_Demotion ==
  [][ /\ \A taskId \in TaskIdsOf(rtAttempt) :
           (RtToggleTask(taskId) /\ rtAttempt.completed
              /\ ~isAttemptComplete(withTaskToggled(rtAttempt, taskId)))
           => Demoted(rtAttempt')
      /\ \A mood \in Moods :
           (RtSetMood(mood) /\ rtAttempt.completed
              /\ ~isAttemptComplete(withMood(rtAttempt, Some(mood))))
           => Demoted(rtAttempt')
      /\ (RtClearMood /\ rtAttempt.completed
              /\ ~isAttemptComplete(withMood(rtAttempt, None)))
           => Demoted(rtAttempt')
      /\ \A weight \in WeightInputs :
           (RtSetWeight(weight) /\ rtAttempt.completed
              /\ ~isAttemptComplete(withWeight(rtAttempt, Some(weight))))
           => Demoted(rtAttempt')
      /\ (RtClearWeight /\ rtAttempt.completed
              /\ ~isAttemptComplete(withWeight(rtAttempt, None)))
           => Demoted(rtAttempt')
      /\ \A photoUri \in PhotoInputs :
           (RtSetPhoto(photoUri) /\ rtAttempt.completed
              /\ ~isAttemptComplete(withPhoto(rtAttempt, Some(photoUri))))
           => Demoted(rtAttempt')
      /\ (RtClearPhoto /\ rtAttempt.completed
              /\ ~isAttemptComplete(withPhoto(rtAttempt, None)))
           => Demoted(rtAttempt')
    ]_vars

\* whether the requirement req (mood, weight, photo, or a task id) is met
ReqSatisfied(a, req) ==
  CASE req = "mood" -> MoodSet(a)
    [] req = "weight" -> WeightPositive(a)
    [] req = "photo" -> PhotoSet(a)
    [] OTHER -> \E i \in 1..Len(a.tasks) : a.tasks[i].id = req /\ a.tasks[i].completed

\* update k switched its requirement on (set or toggle) / off (clear or toggle)
TurnedOn(k) ==
  /\ rtOps[k].op \in {"toggleTask", "setMood", "setWeight", "setPhoto"}
  /\ ~ReqSatisfied(rtHist[k], rtOps[k].req)
  /\ ReqSatisfied(IF k = Len(rtOps) THEN rtAttempt ELSE rtHist[k + 1], rtOps[k].req)
TurnedOff(k) ==
  /\ rtOps[k].op \in {"toggleTask", "clearMood", "clearWeight", "clearPhoto"}
  /\ ReqSatisfied(rtHist[k], rtOps[k].req)
  /\ ~ReqSatisfied(IF k = Len(rtOps) THEN rtAttempt ELSE rtHist[k + 1], rtOps[k].req)

SameCompletion(a, b) == a.completed = b.completed /\ a.timestamp = b.timestamp

OnThenOff == Len(rtOps) = 2 /\ rtOps[1].req = rtOps[2].req /\ TurnedOn(1) /\ TurnedOff(2)
OffThenOn == Len(rtOps) = 2 /\ rtOps[1].req = rtOps[2].req /\ TurnedOff(1) /\ TurnedOn(2)

\* the part of C6 about an attempt that was not completed: toggling a single
\* requirement on and then off returns completed and timestamp to their values
\* before the first update
RoundTripNotCompleted ==
  (OnThenOff /\ ~rtHist[1].completed) => SameCompletion(rtAttempt, rtHist[1])

\* C6 as claimed: the round trip above and, for an attempt that was completed,
\* toggling one requirement off and back on leaves completed and timestamp
\* unchanged throughout.
C6_RoundTripUnchangedThroughout ==
  /\ RoundTripNotCompleted
  /\ (Len(rtOps) >= 1 /\ rtHist[1].completed /\ TurnedOff(1)) =>
       /\ SameCompletion(IF Len(rtOps) = 1 THEN rtAttempt ELSE rtHist[2], rtHist[1])
       /\ OffThenOn => SameCompletion(rtAttempt, rtHist[1])

\* C6 amended: the round trip above and, for an attempt that was completed,
\* toggling one requirement off demotes it (completed = FALSE, timestamp =
\* null), and toggling the requirement back on makes completed TRUE again
\* exactly when the attempt then satisfies all four requirement categories,
\* with no timestamp while it is not completed.
C6_RoundTripDemotesThenRepromotes ==
  /\ RoundTripNotCompleted
  /\ (Len(rtOps) >= 1 /\ rtHist[1].completed /\ TurnedOff(1)) =>
       /\ Demoted(IF Len(rtOps) = 1 THEN rtAttempt ELSE rtHist[2])
       /\ OffThenOn =>
            /\ rtAttempt.completed = SatisfiesAllFour(rtAttempt)
            /\ ~rtAttempt.completed => rtAttempt.timestamp = None

\* a completed attempt had its mood cleared and set again: completed again,
\* at a later time than the original completion
C6_Witness ==
  /\ OffThenOn
  /\ rtOps[1].op = "clearMood"
  /\ rtHist[1].completed /\ rtHist[1].timestamp = Some(1)
  /\ ~rtHist[2].completed
  /\ rtAttempt.completed /\ rtAttempt.timestamp = Some(2)

\* ------------------------------------------------ navigation properties
\* the two gates of day navigation, for the day with 1-based index d
MaxUnlockedDayOf(elapsed) ==
  LET raw == IF elapsed + 1 > 1 THEN elapsed + 1 ELSE 1
  IN IF raw > NumDays THEN NumDays ELSE raw

TimeGate(d) == d <= MaxUnlockedDayOf(today)

CompletionGate(d) == \A i \in 1..(d - 1) : isDayCompleted(days[i])

\* C11: a press on the day with 1-based index d makes d the current day iff
\* d <= maxUnlockedDay and every day 1..d-1 is completed; a press that fails
\* a gate changes nothing; a day beyond maxUnlockedDay stays locked whatever
\* the completion history.
C11_NavigationIffBothGates ==
  [][ \A dayIndex \in 0..(NumDays - 1) :
        LET d == dayIndex + 1
        IN /\ (handleDayPress(dayIndex) /\ appVars' # appVars)
                => /\ TimeGate(d) /\ CompletionGate(d)
                   /\ currentDayIndex' = dayIndex
                   /\ UNCHANGED <<days, stored, now, today, template>>
           /\ (TimeGate(d) /\ CompletionGate(d) /\ steps < MaxSteps)
                => ENABLED (handleDayPress(dayIndex) /\ currentDayIndex' = dayIndex
                            /\ steps' = steps + 1 /\ UNCHANGED idleVars)
           /\ ~(TimeGate(d) /\ CompletionGate(d))
                => ~ENABLED (handleDayPress(dayIndex) /\ appVars' # appVars
                             /\ UNCHANGED idleVars)
    ]_vars

\* the user has moved to day 2, which time and the completion of day 1 unlocked
C11_Witness ==
  /\ currentDayIndex = 1
  /\ today >= 1
  /\ isDayCompleted(days[1])
  /\ ~revised

\* ------------------------------------------------------ date properties
\* the local calendar day an instant falls on
CalendarDay(instant, zone) == wallClock(instant, zone) \div HoursPerDay

ClampToChallenge(n) == IF n < 1 THEN 1 ELSE IF n > NumDays THEN NumDays ELSE n

\* C12: getMaxUnlockedDay is the number of calendar days from the start's
\* local day to today's local day, plus one, clamped to 1..75: it lies in
\* 1..75, depends only on the two calendar days, and so goes up by one at
\* every local midnight until 75.
C12_MaxUnlockedDayByCalendarDays ==
  /\ getMaxUnlockedDayAt(dtStart, dtNow, dtZone) \in 1..NumDays
  /\ getMaxUnlockedDayAt(dtStart, dtNow, dtZone) =
       ClampToChallenge(CalendarDay(dtNow, dtZone) - CalendarDay(dtStart, dtZone) + 1)

\* in a zone without a change the same statement holds
C12_HoldsWithoutZoneChange ==
  dtZone = NoShift => C12_MaxUnlockedDayByCalendarDays

\* --------------------------------------------------- counter properties
\* the positions k such that days 1..k are all completed
CompletedPrefixes == {k \in 1..Len(days) : \A i \in 1..k : isDayCompleted(days[i])}

\* C13: streakCount is the length of the longest prefix of completed days,
\* days completed after the first incomplete day do not count, and
\* completedDaysCount is the number of completed days.
C13_StreakIsCompletedPrefix ==
  /\ getStreakCount = Cardinality(CompletedPrefixes)
  /\ getStreakCount \in 0..Len(days)
  /\ (getStreakCount < Len(days) => ~isDayCompleted(days[getStreakCount + 1]))
  /\ getCompletedDaysCount =
       Len(days) - Cardinality({i \in 1..Len(days) : ~isDayCompleted(days[i])})

\* a completed day stands behind a day that is not completed
C13_Witness ==
  /\ \E i, j \in 1..Len(days) : i < j /\ ~isDayCompleted(days[i]) /\ isDayCompleted(days[j])
  /\ getStreakCount < getCompletedDaysCount

\* ------------------------------------------------------- day properties
\* addNewAttempt applied n times
RECURSIVE addNewAttempts(_, _)
addNewAttempts(day, n) ==
  IF n = 0 THEN day ELSE addNewAttempt(addNewAttempts(day, n - 1))

\* C14: a completed day stays completed however many attempts addNewAttempt
\* appends, and the day it was given is carried over as it was: same index,
\* same earlier attempts.
C14_DayCompletedMonotonic ==
  \A i \in 1..Len(days), n \in 1..MaxAttempts :
    LET day == days[i]
        grown == addNewAttempts(day, n)
    IN /\ isDayCompleted(day) => isDayCompleted(grown)
       /\ Len(grown.attempts) = Len(day.attempts) + n
       /\ SubSeq(grown.attempts, 1, Len(day.attempts)) = day.attempts
       /\ grown.index = day.index

\* startNewAttempt has appended a fresh attempt to a completed day
C14_Witness ==
  \E i \in 1..Len(days) :
    /\ steps > 0
    /\ Len(days[i].attempts) >= 2
    /\ days[i].attempts[1].completed
    /\ ~getCurrentAttempt(days[i]).completed
    /\ isDayCompleted(days[i])
    /\ stored[1].days[i] = days[i]

\* ---------------------------------------------------- backup properties
\* C15: every persisted challenge has exactly NumDays days, and the day at
\* position i (counted from 1) has index i.
C15_PersistedDaysIndexed ==
  stored # None =>
    /\ Len(stored[1].days) = NumDays
    /\ \A i \in 1..NumDays : stored[1].days[i].index = i

\* a payload that passes structural validation, in the words of the import
\* contract: it parses, version, exportDate and challengeData are there,
\* challengeData.version and currentDayIndex are numbers, startDate is there,
\* days is an array of NumDays entries
StructurallyValid(file) ==
  /\ file.text = "json"
  /\ file.data # missing
  /\ file.data[2].version # missing
  /\ file.data[2].exportDate # missing
  /\ file.data[2].challengeData # missing
  /\ LET challengeData == file.data[2].challengeData[2]
     IN /\ challengeData.version # missing /\ challengeData.version[1] = "number"
        /\ challengeData.currentDayIndex # missing
        /\ challengeData.currentDayIndex[1] = "number"
        /\ challengeData.startDate # missing
        /\ challengeData.days # missing /\ challengeData.days[1] = "array"
        /\ Len(challengeData.days[2]) = NumDays

\* C16: an import of a payload that fails structural validation, by importData
\* or through importDataFromZip, returns a failure and leaves the persisted
\* challenge, and everything else, as it was: a step that is an import either
\* returns a failure and writes nothing, or is no import of such a payload.
C16_InvalidImportWritesNothing ==
  [][\/ importResult' = "none"
     \/ /\ importResult' = "failure"
        /\ UNCHANGED <<stored, days, currentDayIndex, startDate, today, exported>>
     \/ \A file \in {f \in PickedFiles : ~StructurallyValid(f)} :
          /\ \A confirmed \in BOOLEAN : ~importData(file, confirmed)
          /\ \A detailsConfirmed \in BOOLEAN, importConfirmed \in BOOLEAN :
               ~handleImportData(file, detailsConfirmed, importConfirmed)]_vars

\* an import has just failed while storage holds a challenge with progress
C16_Witness ==
  /\ importResult = "failure"
  /\ stored # None
  /\ stored[1].days # createInitialDays

\* C17: a confirmed import of the file exported last, when it carries no
\* photos, succeeds and persists a days array equal to the one exported.
C17_ExportImportRoundTrip ==
  [][(importResult' # "none" /\ exported # None /\ exported[1].file.photos = {}) =>
       ((\/ importData(exported[1].file, TRUE)
         \/ handleImportData(exported[1].file, TRUE, TRUE))
        => /\ importResult' = "success"
           /\ stored' # None
           /\ stored'[1].days = exported[1].source)]_vars

\* the last event imported an export without photos of a challenge with
\* progress, over a storage that had moved on since the export
C17_Witness ==
  /\ importResult = "success"
  /\ exported # None
  /\ exported[1].file.photos = {}
  /\ exported[1].source # createInitialDays
  /\ stored # None
  /\ stored[1].days = exported[1].source
  /\ steps >= 3

\* ------------------------------------------------ day date properties
\* C18: day i of a challenge gets the calendar day of the start plus i - 1,
\* whatever the start's time of day: day 1 gets the start's local calendar
\* day, and a start at any other instant of that local day gives the same.
C18_DayDatesFollowStartDay ==
  \A i \in 1..NumDays :
    /\ dayDateAt(dtStart, i, dtZone) = CalendarDay(dtStart, dtZone) + (i - 1)
    /\ \A other \in 0..(2 * HoursPerDay) :
         CalendarDay(other, dtZone) = CalendarDay(dtStart, dtZone)
         => dayDateAt(other, i, dtZone) = dayDateAt(dtStart, i, dtZone)

\* on a device that stays at UTC the same statement holds
C18_HoldsAtUTC ==
  dtZone = NoShift => C18_DayDatesFollowStartDay

\* ------------------------------------------- persisted current day
\* C19: after a press that navigates to the day with 0-based index k the
\* persisted challenge has currentDayIndex = k + 1, which is what loadDays
\* reads back to restore the current day.
C19_NavigationIsPersisted ==
  [][\A dayIndex \in 0..(NumDays - 1) :
       (handleDayPress(dayIndex) /\ steps' = steps + 1)
       => /\ stored' # None
          /\ stored'[1].currentDayIndex = dayIndex + 1
          /\ stored'[1].currentDayIndex - 1 = currentDayIndex']_vars

\* ------------------------------------------------ progress properties
\* C20: the progress figure of a day is (completed tasks + mood set + weight
\* set + photo set) / (number of tasks + 3) of its current attempt, as a
\* percentage: it lies between 0 and 100 and is 100 exactly when every task
\* is completed and mood, weight and photo are set.
C20_ProgressOverTaskCount ==
  \A i \in 1..Len(days) :
    LET currentAttempt == getCurrentAttempt(days[i])
        progress == calculateDayProgress(days[i])
        taskCount == Len(currentAttempt.tasks)
        tasksCompletedCount ==
          Cardinality({k \in 1..taskCount : currentAttempt.tasks[k].completed})
        moodSet == IF currentAttempt.mood # None THEN 1 ELSE 0
        weightSet == IF currentAttempt.weight # None THEN 1 ELSE 0
        photoSet == IF currentAttempt.photoUri # None THEN 1 ELSE 0
        done == tasksCompletedCount + moodSet + weightSet + photoSet
    IN /\ progress.num * (taskCount + 3) = 100 * done * progress.den
       /\ 0 <= progress.num /\ progress.num <= 100 * progress.den
       /\ progress.num = 100 * progress.den <=> done = taskCount + 3

\* ------------------------------------------- completion kept by updates
StaysCompleted(before, after) ==
  after.completed /\ after.timestamp = before.timestamp

\* the attempt after the k-th update of an attempt-level run
rtAfter(k) == IF k = Len(rtOps) THEN rtAttempt ELSE rtHist[k + 1]

\* C21: for every per-field update (toggleTask, setMood, clearMood, setWeight,
\* clearWeight, setPhoto, clearPhoto), when the current attempt is completed
\* and the attempt with the new field value still satisfies isAttemptComplete,
\* completed stays TRUE and timestamp keeps the value it had.  The attempt
\* after the update has the new field value, and isAttemptComplete reads
\* neither completed nor timestamp.
C21_NoRestamping ==
  \A k \in 1..Len(rtOps) :
    (rtHist[k].completed /\ isAttemptComplete(rtAfter(k)))
    => StaysCompleted(rtHist[k], rtAfter(k))

\* the mood of an attempt completed at time 1 was changed to another mood at
\* time 2: still completed, still stamped 1
C21_Witness ==
  /\ Len(rtOps) = 1
  /\ rtOps[1].op = "setMood"
  /\ now = 2
  /\ rtHist[1].completed /\ rtHist[1].timestamp = Some(1)
  /\ rtHist[1].mood = Some("happy") /\ rtAttempt.mood = Some("sad")
  /\ isAttemptComplete(rtAttempt)
  /\ rtAttempt.completed /\ rtAttempt.timestamp = Some(1)

\* ------------------------------------------------- attempts properties
\* C22: under per-field updates, explicit completion, startNewAttempt and
\* bulk task revision (every step but a reset), no day is without attempts,
\* the attempt at position k (counted from 1) has number k, attempts only
\* grow, at the end, and every attempt but the last stays as it was.
C22_AttemptsAppendOnly ==
  [][resetChallenge \/
     \A i \in 1..Len(days) :
       LET before == days[i].attempts
           after == days'[i].attempts
       IN /\ Len(days') = Len(days)
          /\ Len(before) >= 1 /\ Len(after) >= 1
          /\ \A k \in 1..Len(after) : after[k].number = k
          /\ Len(after) >= Len(before)
          /\ SubSeq(after, 1, Len(before) - 1) = SubSeq(before, 1, Len(before) - 1)
          /\ Len(after) > Len(before) => SubSeq(after, 1, Len(before)) = before]_vars

\* on a day with an earlier completed attempt the current attempt has been
\* updated: the earlier attempt is as it was completed
C22_Witness ==
  \E i \in 1..Len(days) :
    /\ steps > 0
    /\ Len(days[i].attempts) = 2
    /\ days[i].attempts[1] = getCurrentAttempt(completedDay(createDay(i)))
    /\ days[i].attempts[2].number = 2
    /\ days[i].attempts[2].mood # None

\* ------------------------------------------- memory and storage in step
\* C24: when every mutating action (toggle, set or clear of mood, weight or
\* photo, explicit completion, new attempt, bulk revision, reset) has completed
\* before the next one is issued and storage does not fail, the persisted days
\* are the in-memory days after each action.
C24_NoDriftSequential ==
  /\ stored # None
  /\ stored[1].days = days

\* a bulk revision and a per-field update have been applied, in memory and in
\* storage alike
C24_Witness ==
  /\ steps >= 2
  /\ template # templateOf(createDefaultTasks)
  /\ \E i \in 1..Len(days) :
       /\ templateOf(getCurrentAttempt(days[i]).tasks) = template
       /\ getCurrentAttempt(days[i]).mood # None
       /\ stored # None
       /\ stored[1].days[i] = days[i]

\* ------------------------------------------------- navigation safety
\* C26: with day navigations, per-field updates, new attempts, bulk task
\* revisions and resets (no import), every day strictly before the in-memory
\* current day is completed.
C26_DaysBeforeCurrentCompleted ==
  \A i \in 1..currentDayIndex : isDayCompleted(days[i])

\* after a navigation to the second day and a bulk revision there, the first
\* day is completed and still has the tasks it was completed with
C26_Witness ==
  /\ currentDayIndex = 1
  /\ revised
  /\ isDayCompleted(days[1])
  /\ templateOf(getCurrentAttempt(days[1]).tasks) # template
  /\ templateOf(getCurrentAttempt(days[2]).tasks) = template

\* ------------------------------------------- frame of bulk task revision
\* C30: a bulk revision changes, on every day, at most the tasks of the
\* current attempt: the number of attempts, every earlier attempt and the
\* current attempt's number, mood, weight, photoUri, completed and timestamp
\* are as before, in memory and in storage, so isDayCompleted of every day,
\* the streak count and the completed days count are as before; a template
\* without a task of non-blank title is rejected, with no change and no write.
C30_RevisionFrame ==
  [][/\ \A editableTasks \in EditableTaskLists :
          filterNonBlank(editableTasks) = <<>>
          => ~ENABLED (saveTasks(editableTasks) /\ UNCHANGED idleVars)
     /\ revised' =>
          /\ Len(days') = Len(days)
          /\ stored' # None /\ stored'[1].days = days'
          /\ getStreakCount' = getStreakCount
          /\ getCompletedDaysCount' = getCompletedDaysCount
          /\ \A i \in 1..Len(days) :
               LET before == getCurrentAttempt(days[i])
                   after == getCurrentAttempt(days'[i])
                   earlier == Len(days[i].attempts) - 1
               IN /\ days'[i].index = days[i].index
                  /\ Len(days'[i].attempts) = Len(days[i].attempts)
                  /\ SubSeq(days'[i].attempts, 1, earlier) = SubSeq(days[i].attempts, 1, earlier)
                  /\ [after EXCEPT !.tasks = before.tasks] = before
                  /\ isDayCompleted(days'[i]) = isDayCompleted(days[i])]_vars

\* a revision has just rebuilt the tasks of a day whose mood, weight and photo
\* were recorded and which is not completed
C30_Witness ==
  /\ revised
  /\ \E i \in 1..Len(days) :
       LET currentAttempt == getCurrentAttempt(days[i])
       IN /\ templateOf(currentAttempt.tasks) = template
          /\ currentAttempt.tasks # createDefaultTasks
          /\ currentAttempt.mood # None
          /\ currentAttempt.weight # None
          /\ currentAttempt.photoUri # None
          /\ ~currentAttempt.completed

\* ------------------------------------------- asynchronous properties
\* C23: when the read or the write of an updateDay / updateDays call fails,
\* the in-memory days are the persisted ones: the day the failed call was
\* given is not visible in memory.  Stated for a call that ran alone.
C23_FailedMutationNotVisible ==
  (/\ Len(calls) = 1
   /\ calls[1].op \in {"updateDay", "updateDays"}
   /\ calls[1].pc \in {"failed", "skipped"})
  => /\ stored # None
     /\ days = stored[1].days

\* C25: two mutations whose reads both come before either write race: the
\* later write puts back the snapshot it read with only its own day or days
\* in it, so whatever the earlier write persisted elsewhere is gone, and
\* nothing stops or flags the later write.
C25_LostUpdate ==
  [][\A k \in 1..Len(calls) :
       (/\ update_save(k, TRUE)
        /\ \E j \in 1..Len(calls) :
             /\ j # k
             /\ calls[j].op \in {"updateDay", "updateDays"}
             /\ calls[j].pc = "done"
             /\ calls[j].read = calls[k].read)
       => LET snapshot == calls[k].read[1]
              written == stored'[1].days
          IN /\ calls'[k].pc = "done"
             /\ error' = error
             /\ IF calls[k].op = "updateDays"
                THEN written = calls[k].payload
                ELSE \A i \in 1..Len(snapshot.days) :
                       written[i] = IF snapshot.days[i].index = calls[k].payload.index
                                    THEN calls[k].payload
                                    ELSE snapshot.days[i]]_vars

\* a bulk revision and a toggle on the first day both read the same snapshot;
\* the revision wrote first, the toggle last: memory has the toggled first day
\* and the revised second day, storage has the second day as it was before
C25_Witness ==
  /\ Len(calls) = 2
  /\ calls[1].op = "updateDays" /\ calls[1].pc = "done"
  /\ calls[2].op = "updateDay" /\ calls[2].pc = "done"
  /\ calls[1].read = calls[2].read
  /\ days[1] = calls[2].payload
  /\ days[2] = calls[1].payload[2]
  /\ stored[1].days[1] = days[1]
  /\ stored[1].days[2] = calls[1].read[1].days[2]
  /\ stored[1].days[2] # days[2]
  /\ error = None

\* C27: when a confirmed import, by importData or importDataFromZip, fails
\* after validation, storage still holds a challenge.  Stated for an import
\* that ran alone.
C27_FailedImportKeepsRecord ==
  (/\ Len(calls) = 1
   /\ calls[1].op \in {"importData", "importDataFromZip"}
   /\ calls[1].pc = "failed")
  => stored # None

\* C28: loadDays stores a fresh challenge only when storage holds no record.
\* Stated for a loadDays that ran alone.
C28_LoadKeepsRecord ==
  [][(Len(calls) = 1 /\ \E ok \in BOOLEAN : loadDays_initialize(1, ok))
     => (stored # None => stored' = stored)]_vars

\* a fresh challenge as resetChallenge leaves it: every day with one attempt,
\* not completed, current day the first
FreshChallenge(challengeData) ==
  /\ Len(challengeData.days) = NumDays
  /\ \A i \in 1..NumDays :
       /\ Len(challengeData.days[i].attempts) = 1
       /\ ~challengeData.days[i].attempts[1].completed
       /\ challengeData.days[i] = createDay(i)
  /\ challengeData.currentDayIndex = 1

\* C29: once a reset and the updateDay that was begun before it have both
\* completed, storage holds the fresh challenge with the new start date, and
\* memory holds the same days.
C29_ResetIsFinal ==
  (/\ Len(calls) = 2
   /\ calls[1].op = "updateDay" /\ settled(calls[1])
   /\ calls[2].op = "resetChallenge" /\ calls[2].pc = "done")
  => /\ stored # None
     /\ FreshChallenge(stored[1])
     /\ stored[1].startDate = startDate
     /\ stored[1].days = days
====
